---- MODULE Spec2Model ----
(***************************************************************************)
(* Trip lifecycle and invitation orchestration of travel-api              *)
(* (internal/api/api.go, internal/mailpit).                               *)
(*                                                                         *)
(* Every HTTP request runs on its own goroutine, so a handler is split at *)
(* its calls to the store: one action per store call, together with the   *)
(* local code that follows it up to the next store call or the return.    *)
(* The store (package pgstore) is not part of the sources at hand; its    *)
(* operations are modelled from the persistence interface of the          *)
(* specification (section 6) and the trips migration.                     *)
(***************************************************************************)
EXTENDS Integers, Sequences, FiniteSets

\* ---------------------------------------------------------------- bounds
MaxTrips == 2
MaxParticipants == 3
MaxWrites == 3
MaxMailWrites == 2
MaxInFlight == 2

\* ------------------------------------------------------------ identities
\* A path parameter is a string handed to uuid.Parse.  BadUUID stands for a
\* string uuid.Parse rejects, NilUUID for the zero value of uuid.UUID (which
\* gen_random_uuid() never produces), k >= 1 for the k-th generated uuid.
BadUUID == -1
NilUUID == 0
TripIDs == 1..MaxTrips
ParticipantIDs == 1..MaxParticipants

WellFormedEmails == {"a@x.com", "b@x.com"}
MalformedEmails == {"not-an-email"}

\* ------------------------------------------------------------- responses
NoResp == [code |-> 0, msg |-> "", trip_id |-> 0]
Resp(c, m) == [code |-> c, msg |-> m, trip_id |-> 0]

MsgBadUUID == "uuid inválido"
MsgBadJSON == "JSON inválido"
MsgInvalidInput == "Invalid input:"
MsgParticipantNotFound == "participante não encontrado"
MsgParticipantConfirmed == "Participante já confirmado."
MsgParticipantInternal == "Algo deu errado, tente novamente."
MsgCreateTripFailed == "Falha ao criar a viagem, tente novamente."
MsgTripNotFound == "viagem não encontrada"
MsgTripInternal == "Algo deu errado, tente novamente"
MsgConfirmInternal == "algo deu errado, tente novamente"

\* ----------------------------------------------------------------- state
VARIABLES
    trips,          \* table trips: row k has id k
    participants,   \* table participants: row k has id k
    reqs,           \* the handlers that are between two store calls
    last,           \* the request that returned most recently, and its response
    writes,         \* number of requests that have written to the store so far
    tasks,          \* the goroutines launched with "go func()"
    hist            \* history of each participant row: the write that added
                    \* it, and the notifications owed to it so far

vars == <<trips, participants, reqs, last, writes, tasks, hist>>

Slots == 1..MaxInFlight

NoTrip == [id |-> NilUUID, destination |-> "", owner_email |-> "", is_confirmed |-> FALSE]
NoParticipant == [id |-> NilUUID, trip_id |-> NilUUID, email |-> "", is_confirmed |-> FALSE]
NoBody == [json_ok |-> TRUE, owner_email |-> "", emails_to_invite |-> <<>>,
           email |-> "", destination |-> ""]
NoTx == <<>>

\* a handler's locals: path parameter, body, and what it read from the store
Idle == [kind |-> "", pc |-> "idle", id |-> BadUUID, body |-> NoBody,
         participants |-> <<>>, trip |-> NoTrip, tx |-> NoTx]

\* err is the error the store handed to the handler, if any
NoRequest == [kind |-> "", id |-> BadUUID, body |-> NoBody, resp |-> NoResp,
              no |-> 0, err |-> ""]

Init ==
    /\ trips = <<>>
    /\ participants = <<>>
    /\ reqs = [s \in Slots |-> Idle]
    /\ last = NoRequest
    /\ writes = 0
    /\ tasks = {}
    /\ hist = <<>>

\* ------------------------------------------------------------- the store
\* A store call either reaches the database ("ok") or fails on the way
\* (connection lost, context cancelled, ...).
StoreOutcomes == {"ok", "error"}

ExistsTrip(id) == id \in 1..Len(trips)
ExistsParticipant(id) == id \in 1..Len(participants)

\* getParticipant(participantId) -> Participant | notFoundError
GetParticipant(id) ==
    IF ExistsParticipant(id) THEN participants[id] ELSE NoParticipant

\* confirmParticipant(participantId): UPDATE ... SET is_confirmed = true WHERE id = $1
ConfirmParticipant(id) ==
    [k \in 1..Len(participants) |->
        IF k = id THEN [participants[k] EXCEPT !.is_confirmed = TRUE]
                  ELSE participants[k]]

\* getTrip(tripId) -> Trip | notFoundError
GetTrip(id) ==
    IF ExistsTrip(id) THEN trips[id] ELSE NoTrip

\* updateTrip(tripId, fields): the row whose id is params.ID, if any
UpdateTrip(params) ==
    [k \in 1..Len(trips) |->
        IF k = params.ID
        THEN [trips[k] EXCEPT !.destination = params.Destination,
                              !.is_confirmed = params.IsConfirmed]
        ELSE trips[k]]

\* setTripConfirmed: UPDATE trips SET is_confirmed = $1 WHERE id = $2
ConfirmTrip(params) ==
    [k \in 1..Len(trips) |->
        IF k = params.ID
        THEN [trips[k] EXCEPT !.is_confirmed = params.IsConfirmed]
        ELSE trips[k]]

\* listParticipants(tripId) -> Participant[]
GetParticipants(tripID) ==
    SelectSeq(participants, LAMBDA p : p.trip_id = tripID)

\* The rows a list of InviteParticipantsToTripParams becomes: fresh ids,
\* is_confirmed at its column default.
NewParticipantRows(rows) ==
    [k \in 1..Len(rows) |->
        [id |-> Len(participants) + k, trip_id |-> rows[k].TripID,
         email |-> rows[k].Email, is_confirmed |-> FALSE]]

\* mutant: the participants table has no foreign key to trips
InviteParticipantsToTripAccepts_NoForeignKey(rows, tripTable) == TRUE

\* addParticipant: rejected when a row references a trip that does not exist
InviteParticipantsToTripAccepts(rows, tripTable) ==
    \A k \in 1..Len(rows) : rows[k].TripID \in 1..Len(tripTable)

InviteParticipantsToTrip(rows) == participants \o NewParticipantRows(rows)

\* createTripWithParticipants: the trip row of a request body
NewTripRow(body) ==
    [id |-> Len(trips) + 1, destination |-> body.destination,
     owner_email |-> body.owner_email, is_confirmed |-> FALSE]

\* createTripWithParticipants: one participant per supplied email, the owner
\* first, all of them for the new trip
CreateTripParticipants(body, tripID) ==
    [k \in 1..(1 + Len(body.emails_to_invite)) |->
        [TripID |-> tripID,
         Email |-> IF k = 1 THEN body.owner_email ELSE body.emails_to_invite[k - 1]]]

\* ------------------------------------------------- request bookkeeping
LowestIdle(s) ==
    /\ reqs[s].pc = "idle"
    /\ \A u \in Slots : u < s => reqs[u].pc # "idle"

\* Handlers that are past their first store call and may still write.
InFlight == {s \in Slots : reqs[s].pc # "idle"}

\* A request is let past validation only while the write budget allows it.
Admit == writes + Cardinality(InFlight) < MaxWrites

\* Rows the handlers in flight may still insert (keeps the tables in bounds).
RECURSIVE ReservedRows(_)
ReservedRows(S) ==
    IF S = {} THEN 0
    ELSE LET s == CHOOSE x \in S : TRUE
         IN Len(reqs[s].tx) + ReservedRows(S \ {s})

RoomForRows(n) == Len(participants) + ReservedRows(Slots) + n <= MaxParticipants

RoomForTrip ==
    Len(trips) + Cardinality({s \in Slots : reqs[s].tx # NoTx}) < MaxTrips

NewRequest(kind, id, body) ==
    [Idle EXCEPT !.kind = kind, !.id = id, !.body = body]

\* The handler returns: its goroutine ends and the response goes out.
Return(s, r, resp, no, err) ==
    /\ reqs' = [reqs EXCEPT ![s] = Idle]
    /\ last' = [kind |-> r.kind, id |-> r.id, body |-> r.body, resp |-> resp,
                no |-> no, err |-> err]

\* a 400 response the handler decides on by itself
Reject(s, r, msg) == Return(s, r, Resp(400, msg), 0, "")

\* a 400 response to an error of the store
Fail(s, r, msg, err) == Return(s, r, Resp(400, msg), 0, err)

\* the errors of the store: pgx.ErrNoRows, a rejected foreign key, and the
\* database not answering
ErrNoRows == "no rows in result set"
ErrForeignKey == "violates foreign key constraint"
ErrUnavailable == "unavailable"

\* The handler goes on to its next store call.
Continue(s, r, pc) ==
    /\ reqs' = [reqs EXCEPT ![s] = [r EXCEPT !.pc = pc]]
    /\ UNCHANGED last

Task(no, idx, kind, email, tripID, pid) ==
    [req |-> no, idx |-> idx, kind |-> kind, email |-> email, trip |-> tripID,
     pid |-> pid, status |-> "pending"]

\* ---------------------------------- PATCH /participants/{id}/confirm
ParticipantIDInputs == {BadUUID} \cup ParticipantIDs

\* mutant: pgx.ErrNoRows is not told apart from the other errors
GetParticipantErrorMessage_NoRowsIgnored(err) == MsgParticipantInternal

\* if errors.Is(err, pgx.ErrNoRows) { "participante não encontrado" } else { ... }
GetParticipantErrorMessage(err) ==
    IF err = ErrNoRows THEN MsgParticipantNotFound ELSE MsgParticipantInternal

\* mutant: the flag that was read is not looked at
AlreadyConfirmed_Unchecked(participant) == FALSE

\* if participant.IsConfirmed { "Participante já confirmado." }
AlreadyConfirmed(participant) == participant.is_confirmed

\* uuid.Parse, GetParticipant and the already-confirmed check
PatchParticipantsParticipantIDConfirm_GetParticipant(s, participantID) ==
    /\ LowestIdle(s)
    /\ participantID # BadUUID => Admit
    /\ \E outcome \in StoreOutcomes :
         LET r == NewRequest("PatchParticipantsParticipantIDConfirm", participantID, NoBody)
             participant == GetParticipant(participantID)
             err == IF outcome = "error" THEN ErrUnavailable
                    ELSE IF ~ExistsParticipant(participantID) THEN ErrNoRows ELSE ""
         IN CASE participantID = BadUUID -> Reject(s, r, MsgBadUUID)
              [] participantID # BadUUID /\ err # "" ->
                    Fail(s, r, GetParticipantErrorMessage(err), err)
              [] participantID # BadUUID /\ err = "" /\ AlreadyConfirmed(participant) ->
                    Reject(s, r, MsgParticipantConfirmed)
              [] OTHER -> Continue(s, r, "ConfirmParticipant")
    /\ UNCHANGED <<trips, participants, writes, tasks, hist>>

\* mutant: the handler also starts an invitation goroutine for the participant
PatchParticipantsParticipantIDConfirm_ConfirmParticipant_Notifies(s) ==
    /\ reqs[s].kind = "PatchParticipantsParticipantIDConfirm"
    /\ reqs[s].pc = "ConfirmParticipant"
    /\ \E outcome \in StoreOutcomes :
         IF outcome = "error"
         THEN /\ Fail(s, reqs[s], MsgParticipantInternal, ErrUnavailable)
              /\ UNCHANGED <<participants, writes, tasks>>
         ELSE /\ participants' = ConfirmParticipant(reqs[s].id)
              /\ writes' = writes + 1
              /\ tasks' = tasks \cup
                    {Task(writes + 1, 1, "invitation", participants[reqs[s].id].email,
                          participants[reqs[s].id].trip_id, reqs[s].id)}
              /\ Return(s, reqs[s], Resp(204, ""), writes + 1, "")
    /\ UNCHANGED <<trips, hist>>

\* mutant: the flag is looked at again at the write, which then refuses a
\* participant that has been confirmed in the meantime
PatchParticipantsParticipantIDConfirm_ConfirmParticipant_Rechecks(s) ==
    /\ reqs[s].kind = "PatchParticipantsParticipantIDConfirm"
    /\ reqs[s].pc = "ConfirmParticipant"
    /\ \E outcome \in StoreOutcomes :
         IF outcome = "error"
         THEN /\ Fail(s, reqs[s], MsgParticipantInternal, ErrUnavailable)
              /\ UNCHANGED <<participants, writes>>
         ELSE IF participants[reqs[s].id].is_confirmed
         THEN /\ Reject(s, reqs[s], MsgParticipantConfirmed)
              /\ UNCHANGED <<participants, writes>>
         ELSE /\ participants' = ConfirmParticipant(reqs[s].id)
              /\ writes' = writes + 1
              /\ Return(s, reqs[s], Resp(204, ""), writes + 1, "")
    /\ UNCHANGED <<trips, tasks, hist>>

PatchParticipantsParticipantIDConfirm_ConfirmParticipant(s) ==
    /\ reqs[s].kind = "PatchParticipantsParticipantIDConfirm"
    /\ reqs[s].pc = "ConfirmParticipant"
    /\ \E outcome \in StoreOutcomes :
         IF outcome = "error"
         THEN /\ Fail(s, reqs[s], MsgParticipantInternal, ErrUnavailable)
              /\ UNCHANGED <<participants, writes>>
         ELSE /\ participants' = ConfirmParticipant(reqs[s].id)
              /\ writes' = writes + 1
              /\ Return(s, reqs[s], Resp(204, ""), writes + 1, "")
    /\ UNCHANGED <<trips, tasks, hist>>

\* --------------------------------------------------------- POST /trips
IsEmail(e) == e \in WellFormedEmails

CreateTripBody(owner, invitees) ==
    [NoBody EXCEPT !.owner_email = owner, !.emails_to_invite = invitees,
                   !.destination = "Paris"]

BadJSON == [NoBody EXCEPT !.json_ok = FALSE]

CreateTripBodies ==
    {BadJSON, CreateTripBody("not-an-email", <<>>)}
    \cup {CreateTripBody("a@x.com", i) : i \in {<<>>, <<"b@x.com">>, <<"not-an-email">>}}

\* validator.Struct on spec.CreateTripRequest
ValidCreateTripRequest(body) ==
    /\ body.destination # ""
    /\ IsEmail(body.owner_email)
    /\ \A k \in 1..Len(body.emails_to_invite) : IsEmail(body.emails_to_invite[k])

\* mutant: no goroutine is launched for the owner
PostTripsTasks_None(r, tripID) == {}

\* mutant: the mail is sent by the handler itself, before it returns
PostTripsTasks_Synchronous(r, tripID) ==
    {[req |-> writes + 1, idx |-> 1, kind |-> "trip_created",
      email |-> r.body.owner_email, trip |-> tripID, pid |-> NilUUID,
      status |-> "sent"]}

\* the goroutine PostTrips launches once the trip is stored
PostTripsTasks(r, tripID) ==
    {Task(writes + 1, 1, "trip_created", "", tripID, NilUUID)}

\* Decode, validate, and the first half of CreateTripTx: the rows are written
\* inside a transaction, seen by nobody else; a row that fails rolls it back.
PostTrips_CreateTripTx(s, body) ==
    /\ LowestIdle(s)
    /\ (body.json_ok /\ ValidCreateTripRequest(body)) =>
            Admit /\ RoomForTrip /\ RoomForRows(1 + Len(body.emails_to_invite))
    /\ \E outcome \in StoreOutcomes :
         LET r == NewRequest("PostTrips", NilUUID, body)
         IN CASE ~body.json_ok -> Reject(s, r, MsgBadJSON)
              [] body.json_ok /\ ~ValidCreateTripRequest(body) ->
                    Reject(s, r, MsgInvalidInput)
              [] body.json_ok /\ ValidCreateTripRequest(body) /\ outcome = "error" ->
                    Fail(s, r, MsgCreateTripFailed, ErrUnavailable)
              [] OTHER ->
                    Continue(s, [r EXCEPT !.tx = CreateTripParticipants(body, NilUUID)],
                             "Commit")
    /\ UNCHANGED <<trips, participants, writes, tasks, hist>>

\* What a commit makes visible: the trip and every participant, at once.
CommitTrips(r) == Append(trips, NewTripRow(r.body))

\* mutant: the commit keeps the owner's row and loses the invitees'
CommitParticipants_OwnerOnly(r) ==
    InviteParticipantsToTrip(
        SubSeq(CreateTripParticipants(r.body, Len(trips) + 1), 1, 1))

\* mutant: only the invitees become participants, not the owner
CommitParticipants_InviteesOnly(r) ==
    InviteParticipantsToTrip(
        SubSeq(CreateTripParticipants(r.body, Len(trips) + 1), 2,
               1 + Len(r.body.emails_to_invite)))

CommitParticipants(r) ==
    InviteParticipantsToTrip(CreateTripParticipants(r.body, Len(trips) + 1))

\* CreateTripTx, second half (commit or failure), and the rest of PostTrips.
PostTrips_Commit(s) ==
    /\ reqs[s].kind = "PostTrips"
    /\ reqs[s].pc = "Commit"
    /\ \E outcome \in StoreOutcomes :
         IF outcome = "error"
         THEN /\ Fail(s, reqs[s], MsgCreateTripFailed, ErrUnavailable)
              /\ UNCHANGED <<trips, participants, writes, tasks, hist>>
         ELSE LET r == reqs[s]
                  tripID == Len(trips) + 1
              IN /\ trips' = CommitTrips(r)
                 /\ participants' = CommitParticipants(r)
                 /\ hist' = hist \o [k \in 1..(Len(participants') - Len(participants)) |->
                                        [by |-> writes + 1, owed |-> 0]]
                 /\ tasks' = tasks \cup PostTripsTasks(r, tripID)
                 /\ writes' = writes + 1
                 /\ Return(s, r, [code |-> 201, msg |-> "", trip_id |-> tripID], writes + 1, "")

\* ------------------------------------------- GET /trips/{tripId}/confirm
TripIDInputs == {BadUUID} \cup TripIDs

\* pgstore.ConfirmTripParams{IsConfirmed: true}: no ID is given, so the ID
\* field keeps the zero value of uuid.UUID.
ConfirmTripParams(r) == [IsConfirmed |-> TRUE, ID |-> NilUUID]

\* mutant: one loop variable shared by all iterations (Go before 1.22), read
\* by the goroutines once the loop is over
ConfirmTripTasks_SharedLoopVariable(r) ==
    LET n == Len(r.participants)
    IN {Task(writes + 1, i, "invitation", r.participants[n].email, r.id,
             r.participants[n].id) : i \in 1..n}

\* mutant: the participants are read again when the goroutines are started
ConfirmTripTasks_Reloaded(r) ==
    LET now == GetParticipants(r.id)
    IN {Task(writes + 1, i, "invitation", now[i].email, r.id, now[i].id) :
            i \in 1..Len(now)}

\* for _, p := range participants { go func() { ... p.Email, id ... }() }
\* (each iteration has its own p: the image is built with Go 1.22)
ConfirmTripTasks(r) ==
    {Task(writes + 1, i, "invitation", r.participants[i].email, r.id, r.participants[i].id) :
        i \in 1..Len(r.participants)}

GetTripsTripIDConfirm_GetParticipants(s, tripID) ==
    /\ LowestIdle(s)
    /\ tripID # BadUUID => Admit
    /\ \E outcome \in StoreOutcomes :
         LET r == NewRequest("GetTripsTripIDConfirm", tripID, NoBody)
         IN CASE tripID = BadUUID -> Reject(s, r, MsgBadUUID)
              [] tripID # BadUUID /\ outcome = "error" ->
                    Fail(s, r, MsgConfirmInternal, ErrUnavailable)
              [] OTHER -> Continue(s, [r EXCEPT !.participants = GetParticipants(tripID)],
                                   "ConfirmTrip")
    /\ UNCHANGED <<trips, participants, writes, tasks, hist>>

\* history: one more notification is owed to every participant the request loaded
OwedAfterConfirm(r) ==
    [k \in 1..Len(hist) |->
        IF \E i \in 1..Len(r.participants) : r.participants[i].id = k
        THEN [hist[k] EXCEPT !.owed = @ + 1] ELSE hist[k]]

\* mutant: confirming the trip also confirms the participants it loaded
GetTripsTripIDConfirm_ConfirmTrip_ConfirmsParticipants(s) ==
    /\ reqs[s].kind = "GetTripsTripIDConfirm"
    /\ reqs[s].pc = "ConfirmTrip"
    /\ \E outcome \in StoreOutcomes :
         IF outcome = "error"
         THEN /\ Fail(s, reqs[s], MsgConfirmInternal, ErrUnavailable)
              /\ UNCHANGED <<trips, participants, tasks, hist, writes>>
         ELSE /\ trips' = ConfirmTrip(ConfirmTripParams(reqs[s]))
              /\ participants' =
                    [k \in 1..Len(participants) |->
                        IF participants[k].trip_id = reqs[s].id
                        THEN [participants[k] EXCEPT !.is_confirmed = TRUE]
                        ELSE participants[k]]
              /\ tasks' = tasks \cup ConfirmTripTasks(reqs[s])
              /\ hist' = OwedAfterConfirm(reqs[s])
              /\ writes' = writes + 1
              /\ Return(s, reqs[s], Resp(204, ""), writes + 1, "")

\* mutant: the goroutines are started before the error of ConfirmTrip is looked at
GetTripsTripIDConfirm_ConfirmTrip_LaunchesFirst(s) ==
    /\ reqs[s].kind = "GetTripsTripIDConfirm"
    /\ reqs[s].pc = "ConfirmTrip"
    /\ \E outcome \in StoreOutcomes :
         IF outcome = "error"
         THEN /\ Fail(s, reqs[s], MsgConfirmInternal, ErrUnavailable)
              /\ tasks' = tasks \cup ConfirmTripTasks(reqs[s])
              /\ UNCHANGED <<trips, hist, writes>>
         ELSE /\ trips' = ConfirmTrip(ConfirmTripParams(reqs[s]))
              /\ tasks' = tasks \cup ConfirmTripTasks(reqs[s])
              /\ hist' = OwedAfterConfirm(reqs[s])
              /\ writes' = writes + 1
              /\ Return(s, reqs[s], Resp(204, ""), writes + 1, "")
    /\ UNCHANGED participants

GetTripsTripIDConfirm_ConfirmTrip(s) ==
    /\ reqs[s].kind = "GetTripsTripIDConfirm"
    /\ reqs[s].pc = "ConfirmTrip"
    /\ \E outcome \in StoreOutcomes :
         IF outcome = "error"
         THEN /\ Fail(s, reqs[s], MsgConfirmInternal, ErrUnavailable)
              /\ UNCHANGED <<trips, tasks, hist, writes>>
         ELSE /\ trips' = ConfirmTrip(ConfirmTripParams(reqs[s]))
              /\ tasks' = tasks \cup ConfirmTripTasks(reqs[s])
              /\ hist' = OwedAfterConfirm(reqs[s])
              /\ writes' = writes + 1
              /\ Return(s, reqs[s], Resp(204, ""), writes + 1, "")
    /\ UNCHANGED participants

\* ------------------------------------------ POST /trips/{tripId}/invites
InviteBody(e) == [NoBody EXCEPT !.email = e]

InviteBodies == {InviteBody(e) : e \in {"b@x.com", "not-an-email"}}

\* validator.Struct on spec.InviteParticipantRequest
ValidInviteParticipantRequest(body) == IsEmail(body.email)

\* mutant: the row is appended to the slice made with length 1, behind its
\* zero-valued first element
InviteParticipantsToTripParams_Appended(r) ==
    <<[TripID |-> NilUUID, Email |-> ""], [TripID |-> r.id, Email |-> r.body.email]>>

\* participant := make([]pgstore.InviteParticipantsToTripParams, 1); participant[0] = ...
InviteParticipantsToTripParams(r) == <<[TripID |-> r.id, Email |-> r.body.email]>>

\* mutant: the invitation goroutine is not launched
InviteTasks_None(r) == {}

\* go func() { api.mailer.SendInvitationToParticipant(string(body.Email), id) }()
InviteTasks(r) ==
    {Task(writes + 1, 1, "invitation", r.body.email, r.id, NilUUID)}

\* mutant: the decoded body is not validated
InvitesBadRequest_NoValidator(tripID, body) ==
    IF tripID = BadUUID THEN MsgBadUUID
    ELSE IF ~body.json_ok THEN MsgBadJSON
    ELSE ""

\* uuid.Parse, Decode, validator.Struct: the message of the 400 response the
\* handler gives before it calls the store, "" if it goes on
InvitesBadRequest(tripID, body) ==
    IF tripID = BadUUID THEN MsgBadUUID
    ELSE IF ~body.json_ok THEN MsgBadJSON
    ELSE IF ~ValidInviteParticipantRequest(body) THEN MsgInvalidInput
    ELSE ""

\* mutant: an email that is already a participant of the trip is not added
\* again and gets no second invitation
PostTripsTripIDInvites_Deduplicates(s, tripID, body) ==
    /\ LowestIdle(s)
    /\ InvitesBadRequest(tripID, body) = "" => Admit /\ RoomForRows(1)
    /\ \E outcome \in StoreOutcomes :
         LET r == NewRequest("PostTripsTripIDInvites", tripID, body)
             participant == InviteParticipantsToTripParams(r)
             bad == InvitesBadRequest(tripID, body)
             known == \E k \in 1..Len(participants) :
                        /\ participants[k].trip_id = tripID
                        /\ participants[k].email = body.email
         IN CASE bad # "" ->
                    /\ Reject(s, r, bad)
                    /\ UNCHANGED <<participants, tasks, hist, writes>>
              [] bad = "" /\ outcome = "error" ->
                    /\ Fail(s, r, MsgTripInternal, ErrUnavailable)
                    /\ UNCHANGED <<participants, tasks, hist, writes>>
              [] bad = "" /\ outcome = "ok"
                    /\ ~InviteParticipantsToTripAccepts(participant, trips) ->
                    /\ Fail(s, r, MsgTripInternal, ErrForeignKey)
                    /\ UNCHANGED <<participants, tasks, hist, writes>>
              [] bad = "" /\ outcome = "ok"
                    /\ InviteParticipantsToTripAccepts(participant, trips) /\ known ->
                    /\ writes' = writes + 1
                    /\ Return(s, r, Resp(201, ""), writes + 1, "")
                    /\ UNCHANGED <<participants, tasks, hist>>
              [] OTHER ->
                    /\ participants' = InviteParticipantsToTrip(participant)
                    /\ hist' = Append(hist, [by |-> writes + 1, owed |-> 1])
                    /\ tasks' = tasks \cup InviteTasks(r)
                    /\ writes' = writes + 1
                    /\ Return(s, r, Resp(201, ""), writes + 1, "")
    /\ UNCHANGED trips

\* The whole handler: it calls the store once.
PostTripsTripIDInvites(s, tripID, body) ==
    /\ LowestIdle(s)
    /\ InvitesBadRequest(tripID, body) = "" => Admit /\ RoomForRows(1)
    /\ \E outcome \in StoreOutcomes :
         LET r == NewRequest("PostTripsTripIDInvites", tripID, body)
             participant == InviteParticipantsToTripParams(r)
             bad == InvitesBadRequest(tripID, body)
         IN CASE bad # "" ->
                    /\ Reject(s, r, bad)
                    /\ UNCHANGED <<participants, tasks, hist, writes>>
              [] bad = "" /\ outcome = "error" ->
                    /\ Fail(s, r, MsgTripInternal, ErrUnavailable)
                    /\ UNCHANGED <<participants, tasks, hist, writes>>
              [] bad = "" /\ outcome = "ok"
                    /\ ~InviteParticipantsToTripAccepts(participant, trips) ->
                    /\ Fail(s, r, MsgTripInternal, ErrForeignKey)
                    /\ UNCHANGED <<participants, tasks, hist, writes>>
              [] OTHER ->
                    /\ participants' = InviteParticipantsToTrip(participant)
                    /\ hist' = Append(hist, [by |-> writes + 1, owed |-> 1])
                    /\ tasks' = tasks \cup InviteTasks(r)
                    /\ writes' = writes + 1
                    /\ Return(s, r, Resp(201, ""), writes + 1, "")
    /\ UNCHANGED trips

\* ---------------------------------------------------- PUT /trips/{tripId}
UpdateTripBodies == {[NoBody EXCEPT !.destination = d] : d \in {"Rome", ""}}

\* validator.Struct on spec.UpdateTripRequest
ValidUpdateTripRequest(body) == body.destination # ""

\* pgstore.UpdateTripParams{..., ID: id, IsConfirmed: trip.IsConfirmed}
UpdateTripParams(r) ==
    [Destination |-> r.body.destination, ID |-> r.id, IsConfirmed |-> r.trip.is_confirmed]

\* uuid.Parse, GetTrip, then decode and validate the body
PutTripsTripID_GetTrip(s, tripID, body) ==
    /\ LowestIdle(s)
    /\ tripID # BadUUID => Admit
    /\ \E outcome \in StoreOutcomes :
         LET r == NewRequest("PutTripsTripID", tripID, body)
         IN CASE tripID = BadUUID -> Reject(s, r, MsgBadUUID)
              [] tripID # BadUUID /\ outcome = "error" ->
                    Fail(s, r, MsgTripInternal, ErrUnavailable)
              [] tripID # BadUUID /\ outcome = "ok" /\ ~ExistsTrip(tripID) ->
                    Fail(s, r, MsgTripNotFound, ErrNoRows)
              [] tripID # BadUUID /\ outcome = "ok" /\ ExistsTrip(tripID) /\ ~body.json_ok ->
                    Reject(s, r, MsgBadJSON)
              [] tripID # BadUUID /\ outcome = "ok" /\ ExistsTrip(tripID) /\ body.json_ok
                    /\ ~ValidUpdateTripRequest(body) -> Reject(s, r, MsgInvalidInput)
              [] OTHER -> Continue(s, [r EXCEPT !.trip = GetTrip(tripID)], "UpdateTrip")
    /\ UNCHANGED <<trips, participants, writes, tasks, hist>>

PutTripsTripID_UpdateTrip(s) ==
    /\ reqs[s].kind = "PutTripsTripID"
    /\ reqs[s].pc = "UpdateTrip"
    /\ \E outcome \in StoreOutcomes :
         IF outcome = "error"
         THEN /\ Fail(s, reqs[s], MsgTripInternal, ErrUnavailable)
              /\ UNCHANGED <<trips, writes>>
         ELSE /\ trips' = UpdateTrip(UpdateTripParams(reqs[s]))
              /\ writes' = writes + 1
              /\ Return(s, reqs[s], Resp(204, ""), writes + 1, "")
    /\ UNCHANGED <<participants, tasks, hist>>

\* ------------------------------------------------------------ the mailer
\* The outcome of mail.Client.DialAndSend.
SendOutcomes == {"sent", "failed"}

\* "trip created" mail: the recipient is the owner_email of the trip read back.
SendConfirmTripEmailToTripOwner(t) ==
    /\ t \in tasks
    /\ t.kind = "trip_created"
    /\ t.status = "pending"
    /\ \E outcome \in StoreOutcomes, sent \in SendOutcomes :
         LET trip == GetTrip(t.trip)
             done == IF outcome = "error" \/ ~ExistsTrip(t.trip)
                     THEN [t EXCEPT !.status = "failed"]
                     ELSE [t EXCEPT !.email = trip.owner_email, !.status = sent]
         IN tasks' = (tasks \ {t}) \cup {done}
    /\ UNCHANGED <<trips, participants, reqs, last, writes, hist>>

\* mutant: a failed send cancels the goroutines of the same request that are
\* still pending
SendInvitationToParticipant_FailureCancelsOthers(t) ==
    /\ t \in tasks
    /\ t.kind = "invitation"
    /\ t.status = "pending"
    /\ \E outcome \in StoreOutcomes, sent \in SendOutcomes :
         LET failed == outcome = "error" \/ ~ExistsTrip(t.trip) \/ sent = "failed"
             others == {u \in tasks : u.req = t.req /\ u.status = "pending"}
         IN tasks' = IF failed
                     THEN (tasks \ others) \cup {[u EXCEPT !.status = "failed"] : u \in others}
                     ELSE (tasks \ {t}) \cup {[t EXCEPT !.status = sent]}
    /\ UNCHANGED <<trips, participants, reqs, last, writes, hist>>

\* invitation mail to the address the goroutine was given
SendInvitationToParticipant(t) ==
    /\ t \in tasks
    /\ t.kind = "invitation"
    /\ t.status = "pending"
    /\ \E outcome \in StoreOutcomes, sent \in SendOutcomes :
         LET done == IF outcome = "error" \/ ~ExistsTrip(t.trip)
                     THEN [t EXCEPT !.status = "failed"]
                     ELSE [t EXCEPT !.status = sent]
         IN tasks' = (tasks \ {t}) \cup {done}
    /\ UNCHANGED <<trips, participants, reqs, last, writes, hist>>

\* ------------------------------------------------------- specifications
Next ==
    \/ \E s \in Slots, id \in ParticipantIDInputs :
            PatchParticipantsParticipantIDConfirm_GetParticipant(s, id)
    \/ \E s \in Slots : PatchParticipantsParticipantIDConfirm_ConfirmParticipant(s)
    \/ \E s \in Slots, body \in CreateTripBodies : PostTrips_CreateTripTx(s, body)
    \/ \E s \in Slots : PostTrips_Commit(s)
    \/ \E s \in Slots, id \in TripIDInputs : GetTripsTripIDConfirm_GetParticipants(s, id)
    \/ \E s \in Slots : GetTripsTripIDConfirm_ConfirmTrip(s)
    \/ \E s \in Slots, id \in TripIDInputs, body \in InviteBodies :
            PostTripsTripIDInvites(s, id, body)
    \/ \E s \in Slots, id \in TripIDInputs, body \in UpdateTripBodies :
            PutTripsTripID_GetTrip(s, id, body)
    \/ \E s \in Slots : PutTripsTripID_UpdateTrip(s)

\* The request handlers under every interleaving; the goroutines they launch
\* stay pending (nothing waits for them, and none has to finish).
Spec == Init /\ [][Next]_vars

\* The handlers together with the mailer goroutines they launch.
Mailer ==
    \/ \E t \in tasks : SendConfirmTripEmailToTripOwner(t)
    \/ \E t \in tasks : SendInvitationToParticipant(t)

\* The goroutines run at any time after their launch, in any order, between
\* the steps of the handlers.  Here the handlers are followed along the
\* requests that are not refused: a refused request writes nothing and
\* launches nothing (shown under Spec), so it leaves the mailer nothing to do.
NextMail ==
    \/ Next /\ writes' <= MaxMailWrites /\ last'.resp.code # 400
    \/ Mailer

SpecMail == Init /\ [][NextMail]_vars

\* ===================================================================
\* Properties
\* ===================================================================
StoreUnchanged == trips' = trips /\ participants' = participants

\* the handler in slot s returns in this step
Returns(s) == reqs[s].pc # "idle" /\ reqs'[s].pc = "idle"

SuppliedEmails(body) == <<body.owner_email>> \o body.emails_to_invite

\* C1: no step of a create-trip request changes a table except its commit;
\* the commit answers 201 and adds, in that one step, exactly one unconfirmed
\* trip and, for that trip, exactly one unconfirmed participant per supplied
\* email (owner first, then every invitee); every other return of the request
\* leaves nothing behind; and no participant row is ever without its trip.
C1_CreateTripAllOrNothing ==
    [][/\ \A s \in Slots :
            (reqs[s].kind = "PostTrips" /\ reqs'[s] # reqs[s]) =>
                LET emails == SuppliedEmails(reqs[s].body)
                    tripID == Len(trips) + 1
                IN \/ StoreUnchanged /\ last'.resp.code # 201
                   \/ /\ last'.resp = [code |-> 201, msg |-> "", trip_id |-> tripID]
                      /\ trips' = trips \o
                            <<[id |-> tripID, destination |-> reqs[s].body.destination,
                               owner_email |-> reqs[s].body.owner_email,
                               is_confirmed |-> FALSE]>>
                      /\ participants' = participants \o
                            [k \in 1..Len(emails) |->
                                [id |-> Len(participants) + k, trip_id |-> tripID,
                                 email |-> emails[k], is_confirmed |-> FALSE]]
       /\ (last'.kind = "PostTrips" /\ last' # last /\ last'.resp.code # 201)
            => StoreUnchanged
       /\ \A k \in 1..Len(participants') : participants'[k].trip_id \in 1..Len(trips')
    ]_vars

\* C1 witness: a create-trip request with an invitee has answered 201 while
\* another request is in flight, and the trip has both of its participants.
C1_Witness ==
    /\ last.kind = "PostTrips"
    /\ last.resp.code = 201
    /\ Len(last.body.emails_to_invite) = 1
    /\ Len(GetParticipants(last.resp.trip_id)) = 2
    /\ InFlight # {}

\* C2: whenever a confirm-trip request for an existing trip T has returned
\* success, the persisted confirmation flag of T is true.
C2_ConfirmTripSetsFlag ==
    (/\ last.kind = "GetTripsTripIDConfirm"
     /\ last.resp.code = 204
     /\ ExistsTrip(last.id))
        => trips[last.id].is_confirmed

\* the goroutines a step launches
Launched == tasks' \ tasks

\* C3: the step in which a confirm-trip request returns success launches, for
\* every participant of the set the request loaded, exactly one task, which
\* carries that participant's email and the requested trip, and launches
\* nothing else; no earlier task is touched.
C3_ConfirmTripOneTaskPerParticipant ==
    [][\A s \in Slots :
        (/\ reqs[s].kind = "GetTripsTripIDConfirm"
         /\ reqs'[s] # reqs[s]
         /\ last'.resp.code = 204) =>
            LET loaded == reqs[s].participants
            IN /\ tasks \subseteq tasks'
               /\ Cardinality(Launched) = Len(loaded)
               /\ \A i \in 1..Len(loaded) :
                    /\ Cardinality({t \in Launched : t.pid = loaded[i].id}) = 1
                    /\ \A t \in Launched :
                        t.pid = loaded[i].id =>
                            /\ t.kind = "invitation"
                            /\ t.email = loaded[i].email
                            /\ t.trip = reqs[s].id
                            /\ t.status = "pending"
    ]_vars

\* C3 witness: a confirm-trip request has returned success and launched tasks
\* for two participants with different emails.
C3_Witness ==
    /\ last.kind = "GetTripsTripIDConfirm"
    /\ last.resp.code = 204
    /\ \E t1, t2 \in tasks :
        /\ t1.req = last.no /\ t2.req = last.no
        /\ t1.trip = last.id /\ t2.trip = last.id
        /\ t1.email # t2.email

\* the step is the first one of a request, and the request returns in it
ReturnsAtOnce == last' # last /\ reqs' = reqs

ConfirmParticipantKind == "PatchParticipantsParticipantIDConfirm"

\* C4: a confirm-participant request that finds its participant already
\* confirmed returns the conflict response (unless the lookup itself fails)
\* and writes nothing; it never reaches the write.  A confirm-participant
\* request that returns success leaves the flag of its participant true, so
\* of two such requests run one after the other the first succeeds and the
\* second gets the conflict response.
C4_ConfirmedParticipantConflict ==
    [][/\ (/\ ReturnsAtOnce
           /\ last'.kind = ConfirmParticipantKind
           /\ ExistsParticipant(last'.id)
           /\ participants[last'.id].is_confirmed)
            => /\ StoreUnchanged /\ tasks' = tasks
               /\ last'.err # ErrUnavailable =>
                    last'.resp = Resp(400, MsgParticipantConfirmed)
       /\ \A s \in Slots :
            (reqs[s].pc = "idle" /\ reqs'[s].kind = ConfirmParticipantKind)
                => /\ ExistsParticipant(reqs'[s].id)
                   /\ ~participants[reqs'[s].id].is_confirmed
       /\ \A s \in Slots :
            (/\ reqs[s].kind = ConfirmParticipantKind
             /\ reqs'[s] # reqs[s]
             /\ last'.resp.code = 204)
                => /\ participants'[reqs[s].id].is_confirmed
                   /\ trips' = trips
    ]_vars

\* C4 witness: after a trip was created and one of its participants
\* confirmed, a second confirm-participant request for that participant, run
\* alone, has got the conflict response.
C4_Witness ==
    /\ last.kind = ConfirmParticipantKind
    /\ last.resp = Resp(400, MsgParticipantConfirmed)
    /\ participants[last.id].is_confirmed
    /\ writes = 2
    /\ InFlight = {}

\* C5: a confirm-participant request whose well-formed identity names no
\* participant writes nothing and gets the not-found response, which differs
\* from the response to a failure of the store; only a failure of the lookup
\* itself gets the latter.
C5_UnknownParticipantNotFound ==
    [][/\ (/\ ReturnsAtOnce
           /\ last'.kind = ConfirmParticipantKind
           /\ last'.id # BadUUID
           /\ ~ExistsParticipant(last'.id))
            => /\ StoreUnchanged /\ tasks' = tasks
               /\ last'.err \in {ErrNoRows, ErrUnavailable}
               /\ last'.err = ErrNoRows =>
                    last'.resp = Resp(400, MsgParticipantNotFound)
               /\ last'.err = ErrUnavailable =>
                    last'.resp = Resp(400, MsgParticipantInternal)
               /\ MsgParticipantNotFound # MsgParticipantInternal
       /\ \A s \in Slots :
            (reqs[s].pc = "idle" /\ reqs'[s].kind = ConfirmParticipantKind)
                => ExistsParticipant(reqs'[s].id)
    ]_vars

\* C5 witness: participants exist, and a request naming none of them has got
\* the not-found response.
C5_Witness ==
    /\ last.kind = ConfirmParticipantKind
    /\ last.resp = Resp(400, MsgParticipantNotFound)
    /\ Len(participants) > 0
    /\ ~ExistsParticipant(last.id)

ValidationMessages == {MsgBadUUID, MsgBadJSON, MsgInvalidInput}

HasMalformedEmail(emails) == \E k \in 1..Len(emails) : emails[k] \in MalformedEmails

\* the request r of one of the four intents has a malformed identity or body
Malformed(r) ==
    CASE r.kind = "PostTrips" ->
            ~r.body.json_ok \/ HasMalformedEmail(SuppliedEmails(r.body))
      [] r.kind = "GetTripsTripIDConfirm" -> r.id = BadUUID
      [] r.kind = "PostTripsTripIDInvites" ->
            r.id = BadUUID \/ ~r.body.json_ok \/ r.body.email \in MalformedEmails
      [] r.kind = ConfirmParticipantKind -> r.id = BadUUID
      [] OTHER -> FALSE

\* C6: a create-trip, confirm-trip, invite or confirm-participant request
\* with a malformed identity or body returns a validation response in its
\* first step, before any call to the store: both tables and the launched
\* tasks are unchanged, and no such request is ever past validation.
C6_MalformedRejectedBeforeStore ==
    [][/\ (last' # last /\ Malformed(last'))
            => /\ last'.resp.code = 400
               /\ last'.resp.msg \in ValidationMessages
               /\ last'.err = ""
               /\ StoreUnchanged /\ tasks' = tasks /\ reqs' = reqs
       /\ \A s \in Slots : reqs'[s].pc # "idle" => ~Malformed(reqs'[s])
    ]_vars

\* C6 witness: an invite with a malformed email for an existing trip has been
\* rejected with the validation response.
C6_Witness ==
    /\ last.kind = "PostTripsTripIDInvites"
    /\ ExistsTrip(last.id)
    /\ last.body.email \in MalformedEmails
    /\ last.resp = Resp(400, MsgInvalidInput)

\* no trip has a true confirmation flag
NoTripConfirmed == \A t \in 1..Len(trips) : ~trips[t].is_confirmed

\* C7: a trip's confirmation flag, once true, stays true in every step.
C7_TripFlagNeverReverts ==
    [][\A t \in 1..Len(trips) :
        trips[t].is_confirmed => (t <= Len(trips') /\ trips'[t].is_confirmed)
    ]_vars

\* C8: no step deletes a participant or turns a true flag false; a new
\* participant starts unconfirmed; and a step that changes the flag of
\* participant k is one in which a confirm-participant request for k
\* returns success.
C8_ParticipantFlagOnlyByConfirm ==
    [][/\ Len(participants') >= Len(participants)
       /\ \A k \in 1..Len(participants) :
            /\ participants[k].is_confirmed => participants'[k].is_confirmed
            /\ participants'[k].is_confirmed # participants[k].is_confirmed =>
                /\ last'.kind = ConfirmParticipantKind
                /\ last'.id = k
                /\ last'.resp.code = 204
                /\ \A j \in 1..Len(participants) \ {k} :
                        participants'[j] = participants[j]
       /\ \A k \in (Len(participants) + 1)..Len(participants') :
            ~participants'[k].is_confirmed
    ]_vars

\* C8 witness: a participant is confirmed, and after that a confirm-trip or
\* update-trip request on its trip has returned success.
C8_Witness ==
    /\ last.kind \in {"GetTripsTripIDConfirm", "PutTripsTripID"}
    /\ last.resp.code = 204
    /\ \E k \in 1..Len(participants) :
        /\ participants[k].is_confirmed
        /\ participants[k].trip_id = last.id

\* C9: every persisted trip has a participant row of its owner.
C9_TripHasOwnerParticipant ==
    \A t \in 1..Len(trips) :
        \E k \in 1..Len(participants) :
            /\ participants[k].trip_id = t
            /\ participants[k].email = trips[t].owner_email

\* C9 witness: two trips exist, the second created while the first already
\* had its participants.
C9_Witness ==
    /\ Len(trips) = 2
    /\ \E k \in 1..Len(participants) : participants[k].trip_id = 2

\* the invitation tasks launched for participant p: by a confirm-trip request
\* that loaded p, or by the invite request that added p
LaunchedFor(p) ==
    {t \in tasks :
        /\ t.kind = "invitation"
        /\ \/ t.pid = p
           \/ t.pid = NilUUID /\ t.req = hist[p].by}

\* C10 as stated: every participant that was loaded by a successful
\* confirm-trip request or was individually invited has exactly one
\* notification attempt launched for it.
C10_ExactlyOneAttempt ==
    \A p \in 1..Len(participants) :
        hist[p].owed >= 1 => Cardinality(LaunchedFor(p)) = 1

\* C10 amended: the number of notification attempts launched for a
\* participant is the number of successful confirm-trip requests that loaded
\* it, plus one if it was individually invited: never zero for a participant
\* that was loaded or invited, and more than one when its trip is confirmed
\* again or confirmed after the invite.
C10_OneAttemptPerConfirmOrInvite ==
    \A p \in 1..Len(participants) :
        Cardinality(LaunchedFor(p)) = hist[p].owed

\* C10 witness: a participant has had two attempts launched for it.
C10_Witness ==
    \E p \in 1..Len(participants) :
        hist[p].owed = 2 /\ Cardinality(LaunchedFor(p)) = 2

ConfirmTripKind == "GetTripsTripIDConfirm"

\* C11: a confirm-trip request launches tasks in one step only, the one in
\* which its ConfirmTrip call has returned without error, which comes after
\* the step in which its GetParticipants call returned the participants; a
\* confirm-trip request that returns an error, from either call, has
\* launched no task in any of its steps.
C11_ConfirmTripTasksAfterLoadAndWrite ==
    [][/\ \A s \in Slots :
            (reqs[s].pc = "idle" /\ reqs'[s].kind = ConfirmTripKind)
                => /\ tasks' = tasks
                   /\ reqs'[s].participants = GetParticipants(reqs'[s].id)
       /\ (ReturnsAtOnce /\ last'.kind = ConfirmTripKind)
            => tasks' = tasks /\ last'.resp.code = 400
       /\ \A s \in Slots :
            (reqs[s].kind = ConfirmTripKind /\ reqs'[s] # reqs[s])
                => /\ reqs[s].pc = "ConfirmTrip"
                   /\ last'.resp.code \in {204, 400}
                   /\ last'.resp.code = 400 =>
                        /\ tasks' = tasks
                        /\ last'.err = ErrUnavailable
                        /\ StoreUnchanged
                   /\ last'.resp.code = 204 =>
                        /\ last'.err = ""
                        /\ writes' = writes + 1
                        /\ \A t \in Launched : t.req = writes'
       /\ (\E t \in Launched : t.kind = "invitation" /\ t.pid # NilUUID)
            => /\ last'.kind = ConfirmTripKind
               /\ last'.resp.code = 204
               /\ last'.no = writes'
    ]_vars

\* C11 witness: a confirm-trip request on a trip that has participants has
\* returned the error of a failed store call, and no confirm-trip task exists.
C11_Witness ==
    /\ last.kind = ConfirmTripKind
    /\ last.resp = Resp(400, MsgConfirmInternal)
    /\ last.err = ErrUnavailable
    /\ \E k \in 1..Len(participants) : participants[k].trip_id = last.id
    /\ \A t \in tasks : t.kind = "invitation" => t.pid = NilUUID

\* a goroutine of the mailer finishes in this step
MailerStep == \E t \in tasks : t.status = "pending" /\ t \notin tasks'

\* C12: the step in which a notification attempt ends, sent or failed,
\* changes no table, no response and no handler, and changes no task but the
\* one that ended, whose recipient and trip stay what they were; a step of a
\* handler changes no task that exists, whatever its status, and every task
\* it launches is pending: the response and the rows written are fixed
\* before any attempt has an outcome.
C12_NotificationOutcomeIsolated ==
    [][/\ MailerStep =>
            /\ StoreUnchanged
            /\ last' = last /\ reqs' = reqs /\ writes' = writes /\ hist' = hist
            /\ \E t \in tasks, d \in tasks' :
                /\ t.status = "pending"
                /\ d.status \in SendOutcomes
                /\ d.req = t.req /\ d.idx = t.idx /\ d.kind = t.kind
                /\ d.trip = t.trip /\ d.pid = t.pid
                /\ tasks' = (tasks \ {t}) \cup {d}
       /\ ~MailerStep =>
            /\ tasks \subseteq tasks'
            /\ \A t \in Launched : t.status = "pending"
    ]_vars

\* C12 witness: of two notifications launched by one successful confirm-trip
\* request, one has failed and the other has been sent, and the response is
\* still the success response.
C12_Witness ==
    /\ last.kind = ConfirmTripKind
    /\ last.resp.code = 204
    /\ \E t1, t2 \in tasks :
        /\ t1.req = last.no /\ t2.req = last.no
        /\ t1.status = "failed" /\ t2.status = "sent"

CreateTripKind == "PostTrips"

\* C13: the step in which a create-trip request returns success answers 201
\* with the identity of the trip row it adds, and launches exactly one task,
\* a "trip created" notification for that trip, whose recipient is the
\* owner_email read from that trip's row, which is the owner of the request
\* and never changes afterwards; a create-trip request that returns the
\* error of a failed store call has changed no table and launched no task.
C13_CreateTripOneOwnerNotification ==
    [][/\ \A s \in Slots :
            (reqs[s].kind = CreateTripKind /\ reqs'[s] # reqs[s]
             /\ last'.resp.code = 201)
                => LET tripID == last'.resp.trip_id
                   IN /\ tripID = Len(trips') /\ Len(trips') = Len(trips) + 1
                      /\ trips'[tripID].id = tripID
                      /\ tasks \subseteq tasks'
                      /\ Cardinality(Launched) = 1
                      /\ \A t \in Launched :
                            /\ t.kind = "trip_created"
                            /\ t.trip = tripID
                            /\ t.status = "pending"
                            /\ trips'[t.trip].owner_email = reqs[s].body.owner_email
       /\ (last' # last /\ last'.kind = CreateTripKind
           /\ last'.err = ErrUnavailable)
            => /\ last'.resp = Resp(400, MsgCreateTripFailed)
               /\ StoreUnchanged /\ tasks' = tasks
       /\ (last' # last /\ last'.kind = CreateTripKind /\ last'.resp.code # 201)
            => StoreUnchanged /\ tasks' = tasks
       /\ \A s \in Slots :
            (reqs[s].pc = "idle" /\ reqs'[s].kind = CreateTripKind)
                => StoreUnchanged /\ tasks' = tasks
       /\ \A k \in 1..Len(trips) : trips'[k].owner_email = trips[k].owner_email
       /\ (\E t \in Launched : t.kind = "trip_created")
            => last'.kind = CreateTripKind /\ last'.resp.code = 201
    ]_vars

\* C13 witness: the second trip has been created by a request with an
\* invitee; the response names it and the one task of the request refers to it.
C13_Witness ==
    /\ last.kind = CreateTripKind
    /\ last.resp.code = 201
    /\ last.resp.trip_id = 2
    /\ Len(last.body.emails_to_invite) = 1
    /\ \E t \in tasks : t.req = last.no /\ t.trip = 2 /\ t.kind = "trip_created"

InviteKind == "PostTripsTripIDInvites"

\* C14: an invite request with a well-formed email for an existing trip, if
\* the database answers, answers 201 in a step that appends exactly one
\* participant row (that email, that trip, flag false), changes no other row
\* of either table, and launches exactly one invitation task with that email
\* and that trip; an invite request that answers with an error has added no
\* participant and launched no task.
C14_InviteAddsOneRowOneTask ==
    [][(last' # last /\ last'.kind = InviteKind) =>
        /\ (/\ ExistsTrip(last'.id)
            /\ last'.body.json_ok
            /\ last'.body.email \in WellFormedEmails
            /\ last'.err # ErrUnavailable) => last'.resp.code = 201
        /\ last'.resp.code = 201 =>
            LET n == Len(participants)
            IN /\ ExistsTrip(last'.id)
               /\ last'.body.email \in WellFormedEmails
               /\ Len(participants') = n + 1
               /\ SubSeq(participants', 1, n) = participants
               /\ participants'[n + 1] =
                    [id |-> n + 1, trip_id |-> last'.id,
                     email |-> last'.body.email, is_confirmed |-> FALSE]
               /\ trips' = trips
               /\ tasks \subseteq tasks'
               /\ Cardinality(Launched) = 1
               /\ \A t \in Launched :
                    /\ t.kind = "invitation"
                    /\ t.email = last'.body.email
                    /\ t.trip = last'.id
                    /\ t.status = "pending"
        /\ last'.resp.code # 201 =>
            /\ last'.resp.code = 400
            /\ StoreUnchanged /\ tasks' = tasks
    ]_vars

\* C14 witness: an invite for a trip that already had participants has
\* succeeded; its row is the last one and its task exists.
C14_Witness ==
    /\ last.kind = InviteKind
    /\ last.resp.code = 201
    /\ Len(participants) >= 2
    /\ participants[Len(participants)].email = last.body.email
    /\ participants[Len(participants)].trip_id = last.id
    /\ \E t \in tasks : t.req = last.no /\ t.email = last.body.email

\* C15: no step of a confirm-participant request changes a trip or launches
\* a task.  A request that finds its participant existing and unconfirmed
\* goes on to the write unless the lookup fails; the write, unless it fails,
\* answers 204 in a step that sets the flag of that participant to true and
\* leaves every other field and every other participant as it was.
C15_ConfirmParticipantFrame ==
    [][/\ \A s \in Slots :
            (reqs[s].pc = "idle" /\ reqs'[s].kind = ConfirmParticipantKind)
                => StoreUnchanged /\ tasks' = tasks
       /\ (ReturnsAtOnce /\ last'.kind = ConfirmParticipantKind)
            => /\ StoreUnchanged /\ tasks' = tasks
               /\ (ExistsParticipant(last'.id) /\ ~participants[last'.id].is_confirmed)
                    => last'.err = ErrUnavailable
       /\ \A s \in Slots :
            (reqs[s].kind = ConfirmParticipantKind /\ reqs'[s] # reqs[s])
                => /\ tasks' = tasks /\ trips' = trips
                   /\ last'.resp.code \in {204, 400}
                   /\ last'.resp.code = 400 =>
                        last'.err = ErrUnavailable /\ participants' = participants
                   /\ last'.resp.code = 204 =>
                        participants' =
                            [participants EXCEPT ![reqs[s].id].is_confirmed = TRUE]
    ]_vars

\* C15 witness: a participant of a trip with two participants has been
\* confirmed by a successful request; the other one is still unconfirmed.
C15_Witness ==
    /\ last.kind = ConfirmParticipantKind
    /\ last.resp.code = 204
    /\ participants[last.id].is_confirmed
    /\ \E k \in 1..Len(participants) :
        /\ k # last.id
        /\ participants[k].trip_id = participants[last.id].trip_id
        /\ ~participants[k].is_confirmed

\* a request returns a success response in this step
SuccessStep == last' # last /\ last'.resp.code \in {201, 204}

\* C16: the step in which a create-trip, confirm-trip, invite or
\* confirm-participant request returns success is the step in which its own
\* write has returned from the store (for the three requests that add or
\* flag a row, the row is there); no write is left to be done after the
\* response.  Every task of the request is launched in that step and is
\* pending in it: no outcome of a notification exists when the response is
\* produced, and nothing obliges a task ever to end.
C16_ResponseAfterWriteBeforeNotification ==
    [][/\ (SuccessStep /\ last'.kind \in {CreateTripKind, ConfirmTripKind,
                                           InviteKind, ConfirmParticipantKind})
            => /\ writes' = writes + 1
               /\ last'.no = writes'
               /\ last'.kind = CreateTripKind =>
                    /\ Len(trips') = Len(trips) + 1
                    /\ last'.resp.trip_id = Len(trips')
                    /\ Len(participants') =
                            Len(participants) + 1 + Len(last'.body.emails_to_invite)
               /\ last'.kind = InviteKind =>
                    /\ Len(participants') = Len(participants) + 1
                    /\ participants'[Len(participants')].email = last'.body.email
               /\ last'.kind = ConfirmParticipantKind =>
                    participants'[last'.id].is_confirmed
               /\ last'.kind = ConfirmTripKind =>
                    \E s \in Slots : reqs[s].pc = "ConfirmTrip" /\ reqs'[s].pc = "idle"
               /\ \A t \in tasks' :
                    t.req = last'.no => (t \in Launched /\ t.status = "pending")
       /\ writes' # writes => SuccessStep
       /\ StoreUnchanged \/ SuccessStep
    ]_vars

\* C16 witness: a confirm-trip request has returned success, all of its
\* notifications are still pending, and meanwhile a notification of an
\* earlier request has ended.
C16_Witness ==
    /\ last.kind = ConfirmTripKind
    /\ last.resp.code = 204
    /\ \E t \in tasks : t.req = last.no
    /\ \A t \in tasks : t.req = last.no => t.status = "pending"
    /\ \E u \in tasks : u.req < last.no /\ u.status # "pending"

\* the handler in slot s is past the already-confirmed check of participant p
\* and has not written yet
PastCheck(s, p) ==
    /\ reqs[s].kind = ConfirmParticipantKind
    /\ reqs[s].pc = "ConfirmParticipant"
    /\ reqs[s].id = p

\* C17: a confirm-participant request that is past the already-confirmed
\* check is not stopped by a write another request has made since: whether or
\* not its participant has been confirmed in the meantime, its write returns
\* success unless the store fails, the participant's flag is true afterwards,
\* and when the flag was already true (the double confirmation) the step
\* changes nothing at all in either table and launches nothing.
C17_DoubleConfirmationBenign ==
    [][\A s \in Slots, p \in ParticipantIDs :
        (PastCheck(s, p) /\ reqs'[s] # reqs[s]) =>
            /\ ExistsParticipant(p)
            /\ last'.id = p
            /\ last'.err # ErrUnavailable =>
                /\ last'.resp = Resp(204, "")
                /\ participants'[p].is_confirmed
                /\ trips' = trips /\ tasks' = tasks
                /\ \A k \in 1..Len(participants) \ {p} :
                        participants'[k] = participants[k]
                /\ participants[p].is_confirmed => participants' = participants
    ]_vars

\* C17 witness: two requests for the same participant were both past the
\* check before either wrote; the first has written and returned success, the
\* participant is confirmed, and the second is still about to write.
C17_Witness ==
    \E s \in Slots, p \in ParticipantIDs :
        /\ PastCheck(s, p)
        /\ ExistsParticipant(p)
        /\ participants[p].is_confirmed
        /\ last.kind = ConfirmParticipantKind
        /\ last.id = p
        /\ last.resp = Resp(204, "")

\* the participant rows of trip tripID with the address email
RowsOf(table, tripID, email) ==
    {k \in 1..Len(table) : table[k].trip_id = tripID /\ table[k].email = email}

\* the invitation tasks of invite requests for trip tripID and address email
InvitationsOf(set, tripID, email) ==
    {t \in set : /\ t.kind = "invitation" /\ t.pid = NilUUID
                 /\ t.trip = tripID /\ t.email = email}

\* C19: a successful invite request whose email is already a participant of
\* the trip adds one more row for that email and trip, with an identity of
\* its own, and launches one more invitation task for them: after two
\* successful invites of one email to one trip there are two rows and two
\* tasks.
C19_InviteNotIdempotent ==
    [][(/\ last' # last
        /\ last'.kind = InviteKind
        /\ last'.resp.code = 201
        /\ RowsOf(participants, last'.id, last'.body.email) # {}) =>
            LET tripID == last'.id
                email == last'.body.email
            IN /\ Cardinality(RowsOf(participants', tripID, email)) =
                    Cardinality(RowsOf(participants, tripID, email)) + 1
               /\ RowsOf(participants, tripID, email)
                    \subseteq RowsOf(participants', tripID, email)
               /\ \A j, k \in 1..Len(participants') :
                    j # k => participants'[j].id # participants'[k].id
               /\ Cardinality(InvitationsOf(tasks', tripID, email)) =
                    Cardinality(InvitationsOf(tasks, tripID, email)) + 1
    ]_vars

\* C19 witness: two invite requests with the same email for the same trip
\* have succeeded: two of the trip's rows carry the email, and two invitation
\* tasks of invite requests carry it.
C19_Witness ==
    /\ last.kind = InviteKind
    /\ last.resp.code = 201
    /\ Cardinality(InvitationsOf(tasks, last.id, last.body.email)) = 2
    /\ Cardinality(RowsOf(participants, last.id, last.body.email)) >= 2

\* C20: after every step every participant row refers to a trip that exists;
\* an invite request with a well-formed identity and body that names a trip
\* that does not exist is answered with the error of the store, adds no row
\* and launches no task.
C20_ParticipantsReferToTrips ==
    [][/\ \A k \in 1..Len(participants') :
            participants'[k].trip_id \in 1..Len(trips')
       /\ (/\ last' # last
           /\ last'.kind = InviteKind
           /\ last'.id # BadUUID
           /\ ~ExistsTrip(last'.id)
           /\ last'.body.json_ok
           /\ last'.body.email \in WellFormedEmails)
            => /\ last'.resp = Resp(400, MsgTripInternal)
               /\ last'.err \in {ErrForeignKey, ErrUnavailable}
               /\ StoreUnchanged /\ tasks' = tasks
    ]_vars

\* C20 witness: while another trip exists, an invite naming a trip that does
\* not exist has been rejected by the foreign key.
C20_Witness ==
    /\ last.kind = InviteKind
    /\ last.err = ErrForeignKey
    /\ last.resp = Resp(400, MsgTripInternal)
    /\ Len(trips) >= 1
    /\ ~ExistsTrip(last.id)
    /\ \A k \in 1..Len(participants) : ExistsTrip(participants[k].trip_id)

\* C21: a confirm-trip request with a well-formed identity that names no
\* trip returns, unless the store fails, the not-found response, which is not
\* the response to a failure of the store; it changes no table and launches
\* no task.
C21_ConfirmUnknownTripNotFound ==
    [][(/\ last' # last
        /\ last'.kind = ConfirmTripKind
        /\ last'.id # BadUUID
        /\ ~ExistsTrip(last'.id)
        /\ last'.id \notin 1..Len(trips')) =>
            /\ StoreUnchanged /\ tasks' = tasks
            /\ last'.resp.code = 400
            /\ last'.err # ErrUnavailable =>
                /\ last'.resp.msg = MsgTripNotFound
                /\ last'.resp.msg # MsgConfirmInternal
    ]_vars

\* the identities of the participants a confirm-trip handler has loaded
Snapshot(r) == {r.participants[i].id : i \in 1..Len(r.participants)}

\* C22: a confirm-trip handler keeps the participants it loaded until it
\* returns; the step in which it returns success launches tasks for the
\* participants of that snapshot and for no other participant, so a
\* participant of the trip that was added after the load gets no task from
\* it, and the step changes no participant row.  No step of a confirm-trip
\* request changes a participant.
C22_ConfirmTripNotifiesSnapshot ==
    [][\A s \in Slots :
        /\ (reqs[s].kind = ConfirmTripKind /\ reqs'[s].kind = ConfirmTripKind)
            => reqs'[s].participants = reqs[s].participants
        /\ (reqs[s].pc = "idle" /\ reqs'[s].kind = ConfirmTripKind)
            => participants' = participants
        /\ (reqs[s].kind = ConfirmTripKind /\ reqs'[s] # reqs[s])
            => /\ participants' = participants
               /\ last'.resp.code = 204 =>
                    /\ {t.pid : t \in Launched} = Snapshot(reqs[s])
                    /\ \A k \in 1..Len(participants) :
                        (participants[k].trip_id = reqs[s].id
                         /\ k \notin Snapshot(reqs[s]))
                            => ~\E t \in tasks' : t.req = last'.no /\ t.pid = k
    ]_vars

\* C22 witness: a confirm-trip request has returned success and launched
\* tasks, and a participant of its trip, added by a write that came before
\* the request's own write but after its load, has no task from it.
C22_Witness ==
    /\ last.kind = ConfirmTripKind
    /\ last.resp.code = 204
    /\ \E t \in tasks : t.req = last.no
    /\ \E k \in 1..Len(participants) :
        /\ participants[k].trip_id = last.id
        /\ hist[k].by < last.no
        /\ ~\E t \in tasks : t.req = last.no /\ t.pid = k

====
